---- MODULE Spec2Model ----
(***************************************************************************)
(* A model of boxtransport: BoxConn wraps a net.Conn in length-prefixed    *)
(* frames holding NaCl boxes.  Two connections, "A" and "B", are joined by *)
(* a reliable ordered byte stream in each direction.  Every connection     *)
(* runs the three goroutines NewBoxConn starts (boxReader, boxWriter,      *)
(* streamWriter); foreground threads call Write, WriteFrame, ReadFrame,    *)
(* Read and Close.  Channels are unbuffered (a send and its receive are    *)
(* one joint step) except errors, a queue of capacity 5.                   *)
(*                                                                         *)
(* Byte strings are kept symbolically, as sequences of runs: a run is a    *)
(* half-open interval [lo, hi) of the bytes of one marked object (the      *)
(* payload of one call, a public key, a nonce, a box, a length field).     *)
(* Lengths are therefore the real ones (MaxContent = 65495) while a state  *)
(* stays small.  Adjacent runs that continue each other are merged, so two *)
(* byte strings are equal exactly when their run sequences are.            *)
(***************************************************************************)
EXTENDS Integers, Sequences, FiniteSets, TLC

\* ------------------------------------------------------------ constants
LenFieldSize == 2
NonceSize == 24
MaxRawData == (2 ^ 16) - 1
Overhead == 16
\* A version of MaxContent that leaves no room for the box overhead.
MaxContentNoOverhead == MaxRawData - NonceSize
MaxContent == MaxRawData - Overhead - NonceSize
KeySize == 32
ErrorsCap == 5

\* ------------------------------------------------------- model bounds
\* The Write and WriteFrame calls the writing threads may start between them,
\* and the Read and ReadFrame calls the reading thread may start.
MaxWrites == 2
MaxReads == 2

Conns == {"A", "B"}
Peer(c) == IF c = "A" THEN "B" ELSE "A"

\* Key pairs are numbered; pair i has public key i and private key i.
\* 0 stands for a nil key pointer.
NoKey == 0
KeyOf(c) == IF c = "A" THEN 1 ELSE 2
\* A public key that belongs to neither connection.
StrangerKey == KeyOf("B") + 1

\* ---------------------------------------------------------- byte strings
Run(k, id, lo, hi, plain) == [k |-> k, id |-> id, lo |-> lo, hi |-> hi, plain |-> plain]
RLen(r) == r.hi - r.lo

RECURSIVE BLen(_)
BLen(s) == IF s = <<>> THEN 0 ELSE RLen(Head(s)) + BLen(Tail(s))

\* b[:n]
RECURSIVE BTake(_, _)
BTake(s, n) ==
  IF n <= 0 \/ s = <<>> THEN <<>>
  ELSE IF RLen(Head(s)) <= n THEN <<Head(s)>> \o BTake(Tail(s), n - RLen(Head(s)))
  ELSE <<[Head(s) EXCEPT !.hi = Head(s).lo + n]>>

\* b[n:]
RECURSIVE BDrop(_, _)
BDrop(s, n) ==
  IF s = <<>> THEN <<>>
  ELSE IF n <= 0 THEN s
  ELSE IF RLen(Head(s)) <= n THEN BDrop(Tail(s), n - RLen(Head(s)))
  ELSE <<[Head(s) EXCEPT !.lo = Head(s).lo + n]>> \o Tail(s)

Continues(r1, r2) ==
  /\ r1.k = r2.k
  /\ r1.id = r2.id
  /\ r1.plain = r2.plain
  /\ r1.hi = r2.lo

\* append(a, b...), copy(dst[len(a):], b)
Cat(a, b) ==
  IF a = <<>> THEN b
  ELSE IF b = <<>> THEN a
  ELSE IF Continues(a[Len(a)], Head(b))
       THEN SubSeq(a, 1, Len(a) - 1) \o <<[a[Len(a)] EXCEPT !.hi = Head(b).hi]>> \o Tail(b)
       ELSE a \o b

IsPrefix(a, b) == BLen(a) <= BLen(b) /\ BTake(b, BLen(a)) = a

Min(a, b) == IF a < b THEN a ELSE b

\* The bytes of one marked payload of n bytes (call number id).
Payload(id, n) == IF n = 0 THEN <<>> ELSE <<Run("dat", id, 0, n, <<>>)>>
\* key[:] of public key k
KeyBytes(k) == <<Run("key", k, 0, KeySize, <<>>)>>

\* copy(c.peersPublicKey[:], msg): the key whose KeySize bytes msg holds
KeyFromBytes(msg) == msg[1].id

\* ---------------------------------------------------------- frame codec
\* binary.BigEndian.PutUint16(tmp[:LenFieldSize], uint16(size))
PutUint16(size) == <<Run("len", size % (2 ^ 16), 0, LenFieldSize, <<>>)>>

\* The value of byte o of the object a run is cut from.  A length field is
\* big-endian; the bytes of every other object are opaque marks, read as 0xFF.
RunByte(r, o) ==
  IF r.k = "len" THEN (IF o = 0 THEN r.id \div 256 ELSE r.id % 256) ELSE 255

RECURSIVE ByteVal(_, _)
ByteVal(s, i) ==
  IF i < RLen(Head(s)) THEN RunByte(Head(s), Head(s).lo + i)
  ELSE ByteVal(Tail(s), i - RLen(Head(s)))

\* binary.BigEndian.Uint16(buff[:])
Uint16(s) == ByteVal(s, 0) * 256 + ByteVal(s, 1)

\* boxWriter: the frame written for one payload taken from outBox
EncodeFrame(msg) == Cat(PutUint16(BLen(msg)), msg)

\* ----------------------------------------------------------- seal, unseal
\* box.Precompute: the shared secret of a private and a public key
Precompute(pub, priv) == IF pub < priv THEN pub * 10 + priv ELSE priv * 10 + pub

\* box.SealAfterPrecomputation(nonce[:], b, &nonce, c.sharedSecret)
SealBytes(b, secret) ==
  <<Run("nonce", 0, 0, NonceSize, <<>>), Run("box", secret, 0, Overhead + BLen(b), b)>>

\* A version of UnsealBytes that opens the box without verifying it: what was
\* altered in flight comes out as altered plaintext.
UnsealNoVerify(b, secret) ==
  IF BLen(b) < NonceSize THEN [kind |-> "panic", plain |-> <<>>]
  ELSE LET bx == BDrop(b, NonceSize)
       IN IF Len(bx) = 1 /\ bx[1].k \in {"box", "tbox"} /\ bx[1].lo = 0
          THEN [kind |-> "ok", plain |-> bx[1].plain]
          ELSE [kind |-> "err", plain |-> <<>>]

\* unseal: "panic" when b[:NonceSize] is out of range, "err" when the box
\* does not verify under the secret, else the plaintext.
UnsealBytes(b, secret) ==
  IF BLen(b) < NonceSize THEN [kind |-> "panic", plain |-> <<>>]
  ELSE LET nonce == BTake(b, NonceSize)
           bx == BDrop(b, NonceSize)
       IN IF /\ nonce = <<Run("nonce", 0, 0, NonceSize, <<>>)>>
             /\ Len(bx) = 1
             /\ bx[1].k = "box"
             /\ bx[1].id = secret
             /\ bx[1].lo = 0
             /\ bx[1].hi = Overhead + BLen(bx[1].plain)
          THEN [kind |-> "ok", plain |-> bx[1].plain]
          ELSE [kind |-> "err", plain |-> <<>>]

\* ------------------------------------------------------------------ state
VARIABLES
  ctor,     \* NewBoxConn's call per connection: its arguments and its position
  keys,     \* BoxConn.publicKey, privateKey, peersPublicKey, sharedSecret
  closed,   \* which of inBox, outBox, outStream have been closed
  errors,   \* BoxConn.errors, a queue of capacity ErrorsCap
  plain,    \* BoxConn.plain, the decrypted bytes not yet returned by Read
  net,      \* net[c]: the bytes in flight towards c
  netSt,    \* the state of c's end of the transport
  reader,   \* boxReader: position, buff[:buffSize], the content being delivered
  writer,   \* boxWriter: position, the bytes of the frame still to write (left)
  batcher,  \* streamWriter: position, frame[:frameSize], encMsg, req
  thr,      \* the foreground threads: the call each is in
  obs       \* history: what has crossed each interface so far

vars == <<ctor, keys, closed, errors, plain, net, netSt, reader, writer, batcher, thr, obs>>

\* w1 and w2 call Write and WriteFrame, r1 calls Read and ReadFrame, k1 calls Close.
Threads == {"w1", "w2", "r1", "k1"}
WThreads == {"w1", "w2"}
ThreadNo(t) == CASE t = "w1" -> 1 [] t = "w2" -> 2 [] t = "r1" -> 3 [] OTHER -> 4
\* The mark of the payload of thread t's k-th call.
CallId(t, k) == ThreadNo(t) * 10 + k

NoErr == "nil"
NoThread == "none"

\* A thread between calls, having started k calls; res is what its last call returned.
\* late marks a call started after Close had returned on the same connection.
Idle(k, res) ==
  [pc |-> "idle", c |-> "A", op |-> "none", k |-> k, b |-> <<>>, size |-> 0,
   n |-> 0, err |-> NoErr, late |-> FALSE, res |-> res]
NoRes ==
  [op |-> "none", c |-> "A", k |-> 0, size |-> 0, n |-> 0, err |-> NoErr, data |-> <<>>,
   late |-> FALSE]
Result(op, c, k, size, n, err, data) ==
  [op |-> op, c |-> c, k |-> k, size |-> size, n |-> n, err |-> err, data |-> data,
   late |-> FALSE]

\* Close has returned on c (k1 is the thread that calls Close).
CloseReturned(c) ==
  thr["k1"].pc = "idle" /\ thr["k1"].res.op = "Close" /\ thr["k1"].res.c = c

\* An unrecovered panic in a foreground call ends the process: the model stops there.
Panicked == \E t \in Threads : thr[t].pc = "panic"
Panic(t) == [thr EXCEPT ![t].pc = "panic"]

NoObs ==
  [handed |-> <<>>,      \* plaintext of the frames streamWriter handed to boxWriter, concatenated
   accepted |-> <<>>,    \* payloads of the requests streamWriter received, concatenated
   wfSent |-> <<>>,      \* the calls of WriteFrame that handed a payload to boxWriter, in order
   rfGot |-> <<>>,       \* the plaintexts ReadFrame returned, in order
   readOut |-> <<>>,     \* the bytes Read returned, concatenated
   firstFrame |-> <<>>,  \* the content of the first frame boxWriter wrote
   maxWire |-> 0,        \* the largest frame (prefix and content) boxWriter wrote
   netOps |-> FALSE,     \* a transport read or write has been issued
   nilSecret |-> FALSE,  \* seal or unseal ran with sharedSecret unset
   sealOps |-> 0]        \* seal and unseal calls (0, 1, 2 = many)

ReaderInit == [pc |-> "loop", buff |-> <<>>, tmp |-> <<>>]
WriterInit == [pc |-> "recv", left |-> <<>>]
BatcherInit ==
  [pc |-> "top", frame |-> <<>>, encMsg |-> <<>>, req |-> NoThread, reqK |-> 0,
   msg |-> <<>>, n |-> 0]
ReaderOff == [ReaderInit EXCEPT !.pc = "off"]
WriterOff == [WriterInit EXCEPT !.pc = "off"]
BatcherOff == [BatcherInit EXCEPT !.pc = "off"]

NoKeys == [publicKey |-> NoKey, privateKey |-> NoKey, peersPublicKey |-> NoKey, sharedSecret |-> NoKey]
AllOpen == [inBox |-> FALSE, outBox |-> FALSE, outStream |-> FALSE]

\* ---------------------------------------------------------------- pushes
\* c.errors <- err blocks while the queue is full
CanPush(c) == Len(errors[c]) < ErrorsCap
Push(c, e) == [errors EXCEPT ![c] = Append(@, e)]
Pop(c) == [errors EXCEPT ![c] = Tail(@)]

\* c.seal / c.unseal dereference c.sharedSecret
CountSeal(c) ==
  [obs EXCEPT ![c].sealOps = Min(@ + 1, 2),
              ![c].nilSecret = @ \/ keys[c].sharedSecret = NoKey]

\* ------------------------------------------------------------- boxReader
BuffCap == MaxRawData + LenFieldSize

\* A whole frame is buffered: buffSize >= LenFieldSize and buffSize >= frameSize.
FrameBuffered(buff) ==
  /\ BLen(buff) >= LenFieldSize
  /\ BLen(buff) >= Uint16(buff) + LenFieldSize

\* A version of FrameContent that forgets to skip the length field.
FrameContentFromStart(buff, frameSize) == BTake(buff, frameSize - LenFieldSize)

\* copy(tmp, buff[LenFieldSize:frameSize])
FrameContent(buff, frameSize) == BDrop(BTake(buff, frameSize), LenFieldSize)

\* A version of FrameRest that leaves the last bytes of the frame in the buffer.
FrameRestShort(buff, frameSize) == BDrop(buff, frameSize - LenFieldSize)

\* copy(buff, buff[frameSize:buffSize]); buffSize -= frameSize
FrameRest(buff, frameSize) == BDrop(buff, frameSize)

\* The top of boxReader's loop: cut the first frame out of the buffer and go
\* to send its content on inBox, or issue a transport read.
ReaderLoop(c) ==
  /\ reader[c].pc = "loop"
  /\ IF FrameBuffered(reader[c].buff)
     THEN LET frameSize == Uint16(reader[c].buff) + LenFieldSize
          IN /\ reader' = [reader EXCEPT
                  ![c].tmp = FrameContent(reader[c].buff, frameSize),
                  ![c].buff = FrameRest(reader[c].buff, frameSize),
                  ![c].pc = "send"]
             /\ obs' = obs
     ELSE /\ reader' = [reader EXCEPT ![c].pc = "read"]
          /\ obs' = [obs EXCEPT ![c].netOps = TRUE]
  /\ UNCHANGED <<ctor, keys, closed, errors, plain, net, netSt, writer, batcher, thr>>

\* What c.conn.Read may return n bytes of: the bytes in flight, as far as
\* buff[buffSize:] has room.
Readable(c) == Min(BLen(net[c]), BuffCap - BLen(reader[c].buff))

\* n, err := c.conn.Read(buff[buffSize:]) returning n > 0 bytes and no error
ReaderRead(c, n) ==
  /\ reader[c].pc = "read"
  /\ netSt[c] = "open"
  /\ n >= 1
  /\ n <= Readable(c)
  /\ reader' = [reader EXCEPT ![c].buff = Cat(@, BTake(net[c], n)), ![c].pc = "loop"]
  /\ net' = [net EXCEPT ![c] = BDrop(@, n)]
  /\ UNCHANGED <<ctor, keys, closed, errors, plain, netSt, writer, batcher, thr, obs>>

\* The transport read fails: the connection was closed or broke, or the peer
\* closed its end and everything it sent has been read.
ReadFails(c) ==
  \/ netSt[c] # "open"
  \/ (netSt[Peer(c)] # "open" /\ net[c] = <<>>)

\* A version of ReaderReadErr that pushes the error and reads again.
ReaderReadErrGoesOn(c) ==
  /\ reader[c].pc = "read"
  /\ ReadFails(c)
  /\ CanPush(c)
  /\ errors' = Push(c, "read")
  /\ UNCHANGED <<ctor, keys, closed, plain, net, netSt, reader, writer, batcher, thr, obs>>

ReaderReadErr(c) ==
  /\ reader[c].pc = "read"
  /\ ReadFails(c)
  /\ CanPush(c)
  /\ errors' = Push(c, "read")
  /\ reader' = [reader EXCEPT ![c].pc = "done"]
  /\ UNCHANGED <<ctor, keys, closed, plain, net, netSt, writer, batcher, thr, obs>>

\* c.inBox <- tmp on a closed channel panics; the deferred recover ends the task.
ReaderPanic(c) ==
  /\ reader[c].pc = "send"
  /\ closed[c].inBox
  /\ reader' = [reader EXCEPT ![c].pc = "done", ![c].tmp = <<>>]
  /\ UNCHANGED <<ctor, keys, closed, errors, plain, net, netSt, writer, batcher, thr, obs>>

\* The reader's side of a receive from inBox: the content is handed over.
InBoxReady(c) == reader[c].pc = "send" /\ ~closed[c].inBox
ReaderDelivered(c) == [reader EXCEPT ![c].pc = "loop", ![c].tmp = <<>>]

\* ------------------------------------------------------------- boxWriter
\* The writer's side of a send on outBox: it frames msg and goes to write it.
OutBoxReady(c) == writer[c].pc = "recv" /\ ~closed[c].outBox
WriterTook(c, msg) == [writer EXCEPT ![c].pc = "write", ![c].left = EncodeFrame(msg)]

\* c.conn.Write(left) writes all of left (an io.Writer returns n < len(left)
\* only with an error).
WriterWrite(c) ==
  /\ writer[c].pc = "write"
  /\ netSt[c] = "open"
  /\ net' = [net EXCEPT ![Peer(c)] = Cat(@, writer[c].left)]
  /\ writer' = [writer EXCEPT ![c].pc = "recv", ![c].left = <<>>]
  /\ obs' = [obs EXCEPT
       ![c].netOps = TRUE,
       ![c].firstFrame = IF obs[c].maxWire = 0 THEN BDrop(writer[c].left, LenFieldSize) ELSE @,
       ![c].maxWire = IF BLen(writer[c].left) > @ THEN BLen(writer[c].left) ELSE @]
  /\ UNCHANGED <<ctor, keys, closed, errors, plain, netSt, reader, batcher, thr>>

WriterWriteErr(c) ==
  /\ writer[c].pc = "write"
  /\ netSt[c] # "open"
  /\ CanPush(c)
  /\ errors' = Push(c, "write")
  /\ writer' = [writer EXCEPT ![c].pc = "done", ![c].left = <<>>]
  /\ obs' = [obs EXCEPT ![c].netOps = TRUE]
  /\ UNCHANGED <<ctor, keys, closed, plain, net, netSt, reader, batcher, thr>>

\* msg, ok := <-c.outBox with ok false: the loop ends.
WriterExit(c) ==
  /\ writer[c].pc = "recv"
  /\ closed[c].outBox
  /\ writer' = [writer EXCEPT ![c].pc = "done"]
  /\ UNCHANGED <<ctor, keys, closed, errors, plain, net, netSt, reader, batcher, thr, obs>>

\* ------------------------------------------------------------ NewBoxConn
\* The channels are made and the three goroutines started before the keys
\* are looked at.
CtorStart(c) ==
  /\ ctor[c].pc = "start"
  /\ ctor' = [ctor EXCEPT ![c].pc = "keys"]
  /\ reader' = [reader EXCEPT ![c] = ReaderInit]
  /\ writer' = [writer EXCEPT ![c] = WriterInit]
  /\ batcher' = [batcher EXCEPT ![c] = BatcherInit]
  /\ UNCHANGED <<keys, closed, errors, plain, net, netSt, thr, obs>>

CtorKeys(c) ==
  /\ ctor[c].pc = "keys"
  /\ keys' = [keys EXCEPT ![c].peersPublicKey = ctor[c].peersPublicKey,
                          ![c].publicKey = ctor[c].publicKey,
                          ![c].privateKey = ctor[c].privateKey]
  /\ ctor' = [ctor EXCEPT
       ![c].pc = IF ctor[c].privateKey = NoKey \/ ctor[c].publicKey = NoKey
                 THEN "failed" ELSE "send",
       ![c].err = IF ctor[c].privateKey = NoKey \/ ctor[c].publicKey = NoKey
                  THEN "config" ELSE NoErr]
  /\ UNCHANGED <<closed, errors, plain, net, netSt, reader, writer, batcher, thr, obs>>

\* c.outBox <- c.publicKey[:]
CtorSendKey(c) ==
  /\ ctor[c].pc = "send"
  /\ OutBoxReady(c)
  /\ writer' = WriterTook(c, KeyBytes(keys[c].publicKey))
  /\ ctor' = [ctor EXCEPT ![c].pc = "recv"]
  /\ UNCHANGED <<keys, closed, errors, plain, net, netSt, reader, batcher, thr, obs>>

\* select: case err := <-c.errors
CtorRecvErr(c) ==
  /\ ctor[c].pc = "recv"
  /\ errors[c] # <<>>
  /\ ctor' = [ctor EXCEPT ![c].pc = "failed", ![c].err = Head(errors[c])]
  /\ errors' = Pop(c)
  /\ UNCHANGED <<keys, closed, plain, net, netSt, reader, writer, batcher, thr, obs>>

\* A version of KeyAccepted that checks the length alone.
KeyAcceptedUnpinned(msg, expected) == BLen(msg) = KeySize

\* The check of the first frame against the expected key.
KeyAccepted(msg, expected) ==
  /\ BLen(msg) = KeySize
  /\ (expected = NoKey \/ msg = KeyBytes(expected))

\* select: case msg := <-c.inBox, then box.Precompute
CtorRecvMsg(c) ==
  /\ ctor[c].pc = "recv"
  /\ InBoxReady(c)
  /\ LET msg == reader[c].tmp
         ok == KeyAccepted(msg, keys[c].peersPublicKey)
         peer == IF keys[c].peersPublicKey = NoKey THEN KeyFromBytes(msg)
                 ELSE keys[c].peersPublicKey
     IN /\ ctor' = [ctor EXCEPT ![c].pc = IF ok THEN "done" ELSE "failed",
                                ![c].err = IF ok THEN NoErr ELSE "handshake",
                                ![c].got = msg,
                                ![c].gotAny = TRUE]
        /\ keys' = IF ok
                   THEN [keys EXCEPT ![c].peersPublicKey = peer,
                                     ![c].sharedSecret = Precompute(peer, keys[c].privateKey)]
                   ELSE keys
  /\ reader' = ReaderDelivered(c)
  /\ UNCHANGED <<closed, errors, plain, net, netSt, writer, batcher, thr, obs>>

\* ----------------------------------------------------------- streamWriter
\* len(c.outStream): outStream is made without a buffer, so nothing is ever queued.
LenOutStream(c) == 0

Space(b) == MaxContent - BLen(b.frame)

\* "Seal message to send": frameSize > 0 && encMsg == nil
NeedsSeal(b) == BLen(b.frame) > 0 /\ b.encMsg = <<>>

\* The end of one pass of the loop from the seal on, for the task's record b
\* and the history o; randOk is whether rand.Read filled the nonce.
SealPart(c, b, o, randOk) ==
  IF NeedsSeal(b)
  THEN IF randOk
       THEN /\ batcher' = [batcher EXCEPT
                 ![c] = [b EXCEPT !.encMsg = SealBytes(b.frame, keys[c].sharedSecret),
                                  !.pc = "top"]]
            /\ obs' = [o EXCEPT ![c].sealOps = Min(@ + 1, 2),
                                ![c].nilSecret = @ \/ keys[c].sharedSecret = NoKey]
            /\ errors' = errors
       ELSE /\ CanPush(c)
            /\ batcher' = [batcher EXCEPT ![c] = [b EXCEPT !.pc = "done"]]
            /\ obs' = o
            /\ errors' = Push(c, "nonce")
  ELSE /\ batcher' = [batcher EXCEPT ![c] = [b EXCEPT !.pc = "top"]]
       /\ obs' = o
       /\ errors' = errors

\* "Wait a little for more content (if needed)", then the seal.
WaitPart(c, b, o, randOk) ==
  IF Space(b) > 0
  THEN IF LenOutStream(c) > 0
       THEN /\ batcher' = [batcher EXCEPT ![c] = [b EXCEPT !.pc = "top"]]
            /\ obs' = o
            /\ errors' = errors
       ELSE /\ batcher' = [batcher EXCEPT ![c] = [b EXCEPT !.pc = "sleep"]]
            /\ obs' = o
            /\ errors' = errors
  ELSE SealPart(c, b, o, randOk)

\* "Copy data into frame", up to the send of the count on req.n.
CopyPart(c, b, o, randOk) ==
  IF b.req # NoThread /\ Space(b) > 0
  THEN /\ batcher' = [batcher EXCEPT
            ![c] = [b EXCEPT !.n = Min(Space(b), BLen(b.msg)), !.pc = "report"]]
       /\ obs' = o
       /\ errors' = errors
  ELSE WaitPart(c, b, o, randOk)

\* The task may receive from outStream: the select of the first branch, or
\* the receive of the last.
MayReceive(b) == b.pc = "top" /\ (b.encMsg = <<>> \/ b.req = NoThread)
\* The task may send encMsg on outBox: the select, or the send of the second branch.
MaySend(b) == b.pc = "top" /\ b.encMsg # <<>>

\* A call's return to its thread; ReturnNow is the return of a call that
\* never blocked.
Return(t, res) == [thr EXCEPT ![t] = Idle(thr[t].k, [res EXCEPT !.late = thr[t].late])]
ReturnNow(t, res) ==
  [thr EXCEPT ![t] = Idle(thr[t].k + 1, [res EXCEPT !.late = CloseReturned(res.c)])]

\* req, ok = <-c.outStream meets thread t's c.outStream <- &writeRequest{...}.
\* A Write of no bytes returns at once.
BatcherAccept(c, t, randOk) ==
  /\ MayReceive(batcher[c])
  /\ ~closed[c].outStream
  /\ thr[t].pc = "W_send"
  /\ thr[t].c = c
  /\ thr' = IF thr[t].size > 0
            THEN [thr EXCEPT ![t].pc = "W_wait"]
            ELSE Return(t, Result("Write", c, thr[t].k, 0, 0, NoErr, <<>>))
  /\ CopyPart(c, [batcher[c] EXCEPT !.req = t, !.reqK = thr[t].k, !.msg = thr[t].b],
              [obs EXCEPT ![c].accepted = Cat(@, thr[t].b)], randOk)
  /\ UNCHANGED <<ctor, keys, closed, plain, net, netSt, reader, writer>>

\* A version of Flushed that forgets frameSize = 0.
FlushedKeepsFrame(b) == [b EXCEPT !.encMsg = <<>>]

\* After the send: encMsg = nil, frameSize = 0
Flushed(b) == [b EXCEPT !.encMsg = <<>>, !.frame = <<>>]

\* c.outBox <- encMsg meets boxWriter's receive.
BatcherFlush(c, randOk) ==
  /\ MaySend(batcher[c])
  /\ OutBoxReady(c)
  /\ writer' = WriterTook(c, batcher[c].encMsg)
  /\ CopyPart(c, Flushed(batcher[c]),
              [obs EXCEPT ![c].handed =
                  Cat(@, UnsealBytes(batcher[c].encMsg, keys[c].sharedSecret).plain)],
              randOk)
  /\ UNCHANGED <<ctor, keys, closed, plain, net, netSt, reader, thr>>

\* The receive from the closed outStream: return.
BatcherExit(c) ==
  /\ MayReceive(batcher[c])
  /\ closed[c].outStream
  /\ batcher' = [batcher EXCEPT ![c].pc = "done"]
  /\ UNCHANGED <<ctor, keys, closed, errors, plain, net, netSt, reader, writer, thr, obs>>

\* The send on the closed outBox panics; the deferred recover ends the task.
BatcherPanic(c) ==
  /\ MaySend(batcher[c])
  /\ closed[c].outBox
  /\ batcher' = [batcher EXCEPT ![c].pc = "done"]
  /\ UNCHANGED <<ctor, keys, closed, errors, plain, net, netSt, reader, writer, thr, obs>>

\* A version of Drained that keeps the payload sealed before the copy.
DrainedKeepsSeal(b) ==
  [b EXCEPT !.msg = BDrop(b.msg, b.n),
            !.frame = Cat(b.frame, BTake(b.msg, b.n)),
            !.n = 0,
            !.req = IF BLen(b.msg) - b.n = 0 THEN NoThread ELSE b.req,
            !.reqK = IF BLen(b.msg) - b.n = 0 THEN 0 ELSE b.reqK]

\* A version of Drained that copies to the front of the frame.
DrainedToFront(b) ==
  [b EXCEPT !.msg = BDrop(b.msg, b.n),
            !.frame = Cat(BTake(b.msg, b.n), b.frame),
            !.encMsg = <<>>,
            !.n = 0,
            !.req = IF BLen(b.msg) - b.n = 0 THEN NoThread ELSE b.req,
            !.reqK = IF BLen(b.msg) - b.n = 0 THEN 0 ELSE b.reqK]

\* The bytes one pass copies into the frame and takes off the request.
Copied(b) == BTake(b.msg, b.n)
Drained(b) ==
  [b EXCEPT !.msg = BDrop(b.msg, b.n),
            !.frame = Cat(b.frame, Copied(b)),
            !.encMsg = <<>>,
            !.n = 0,
            !.req = IF BLen(b.msg) - b.n = 0 THEN NoThread ELSE b.req,
            !.reqK = IF BLen(b.msg) - b.n = 0 THEN 0 ELSE b.reqK]

\* Thread t is in the select of the Write that made request k of it on c:
\* the only receiver there ever is on that request's channel.
Receiving(t, c, k) == thr[t].pc = "W_wait" /\ thr[t].c = c /\ thr[t].k = k

\* req.n <- n meets the m := <-cnt of the Write that made the request; that
\* Write returns once n reaches len(b).
BatcherReport(c, randOk) ==
  /\ batcher[c].pc = "report"
  /\ LET t == batcher[c].req
     IN /\ Receiving(t, c, batcher[c].reqK)
        /\ thr' = IF thr[t].n + batcher[c].n < thr[t].size
                  THEN [thr EXCEPT ![t].n = @ + batcher[c].n]
                  ELSE Return(t, Result("Write", c, thr[t].k, thr[t].size,
                                        thr[t].n + batcher[c].n, thr[t].err, <<>>))
  /\ WaitPart(c, Drained(batcher[c]), obs, randOk)
  /\ UNCHANGED <<ctor, keys, closed, plain, net, netSt, reader, writer>>

\* time.Sleep(c.holdTime) is over.
BatcherWake(c, randOk) ==
  /\ batcher[c].pc = "sleep"
  /\ IF LenOutStream(c) > 0
     THEN /\ batcher' = [batcher EXCEPT ![c].pc = "top"]
          /\ UNCHANGED <<obs, errors>>
     ELSE SealPart(c, batcher[c], obs, randOk)
  /\ UNCHANGED <<ctor, keys, closed, plain, net, netSt, reader, writer, thr>>

\* ------------------------------------------------------------------ Write
\* The calls a thread may still start.
Budget(t) ==
  IF t \in WThreads THEN thr["w1"].k + thr["w2"].k < MaxWrites
  ELSE IF t = "r1" THEN thr[t].k < MaxReads
  ELSE thr[t].k < 1

\* A version of CanCall in which NewBoxConn hands out the connection as soon
\* as it has sent its key.
CanCallEarly(t, c) ==
  /\ thr[t].pc = "idle"
  /\ ctor[c].pc \in {"recv", "done"}
  /\ Budget(t)

\* A thread may start a call on a connection NewBoxConn has returned.
CanCall(t, c) ==
  /\ thr[t].pc = "idle"
  /\ ctor[c].pc = "done"
  /\ Budget(t)
  /\ IF t \in WThreads THEN thr["w1"].k + thr["w2"].k < MaxWrites
     ELSE IF t = "r1" THEN thr[t].k < MaxReads
     ELSE thr[t].k < 1

Calling(t, c, op, pc, b, size) ==
  [thr EXCEPT ![t] = [pc |-> pc, c |-> c, op |-> op, k |-> thr[t].k + 1, b |-> b,
                      size |-> size, n |-> 0, err |-> NoErr, late |-> CloseReturned(c),
                      res |-> NoRes]]

\* Write(b): cnt := make(chan int), then the send of the request.
CallWrite(t, c, len) ==
  /\ CanCall(t, c)
  /\ thr' = Calling(t, c, "Write", "W_send", Payload(CallId(t, thr[t].k + 1), len), len)
  /\ UNCHANGED <<ctor, keys, closed, errors, plain, net, netSt, reader, writer, batcher, obs>>

\* c.outStream <- req on the closed channel panics in the caller.
WritePanic(t) ==
  /\ thr[t].pc = "W_send"
  /\ closed[thr[t].c].outStream
  /\ thr' = Panic(t)
  /\ UNCHANGED <<ctor, keys, closed, errors, plain, net, netSt, reader, writer, batcher, obs>>

\* select: case err = <-c.errors. The loop goes on: n < len(b) still.
WriteGetErr(t) ==
  /\ thr[t].pc = "W_wait"
  /\ errors[thr[t].c] # <<>>
  /\ thr' = [thr EXCEPT ![t].err = Head(errors[thr[t].c])]
  /\ errors' = Pop(thr[t].c)
  /\ UNCHANGED <<ctor, keys, closed, plain, net, netSt, reader, writer, batcher, obs>>

\* ------------------------------------------------------------- WriteFrame
\* A version of TooLarge that is off by one.
TooLargeFromMax(len) == len >= MaxContent

\* len(frame) > MaxContent
TooLarge(len) == len > MaxContent

\* WriteFrame(frame): the length check and the seal, up to the select.
CallWriteFrame(t, c, len, randOk) ==
  /\ CanCall(t, c)
  /\ LET frame == Payload(CallId(t, thr[t].k + 1), len)
     IN IF TooLarge(len)
        THEN /\ thr' = ReturnNow(t, Result("WriteFrame", c, thr[t].k + 1, len, 0, "tooLarge", <<>>))
             /\ obs' = obs
        ELSE IF ~randOk
        THEN /\ thr' = ReturnNow(t, Result("WriteFrame", c, thr[t].k + 1, len, 0, "nonce", <<>>))
             /\ obs' = obs
        ELSE /\ thr' = Calling(t, c, "WriteFrame", "WF_sel",
                               SealBytes(frame, keys[c].sharedSecret), len)
             /\ obs' = CountSeal(c)
  /\ UNCHANGED <<ctor, keys, closed, errors, plain, net, netSt, reader, writer, batcher>>

Returned(t, err, n, data) ==
  Return(t, Result(thr[t].op, thr[t].c, thr[t].k, thr[t].size, n, err, data))

\* select: case err := <-c.errors
WriteFrameErr(t) ==
  /\ thr[t].pc = "WF_sel"
  /\ errors[thr[t].c] # <<>>
  /\ thr' = Returned(t, Head(errors[thr[t].c]), 0, <<>>)
  /\ errors' = Pop(thr[t].c)
  /\ UNCHANGED <<ctor, keys, closed, plain, net, netSt, reader, writer, batcher, obs>>

\* select: case c.outBox <- enc
WriteFrameSend(t) ==
  /\ thr[t].pc = "WF_sel"
  /\ OutBoxReady(thr[t].c)
  /\ writer' = WriterTook(thr[t].c, thr[t].b)
  /\ thr' = Returned(t, NoErr, 0, <<>>)
  /\ obs' = [obs EXCEPT ![thr[t].c].wfSent =
               Append(@, [id |-> CallId(t, thr[t].k),
                          plain |-> UnsealBytes(thr[t].b, keys[thr[t].c].sharedSecret).plain])]
  /\ UNCHANGED <<ctor, keys, closed, errors, plain, net, netSt, reader, batcher>>

\* The send on the closed outBox panics in the caller.
WriteFramePanic(t) ==
  /\ thr[t].pc = "WF_sel"
  /\ closed[thr[t].c].outBox
  /\ thr' = Panic(t)
  /\ UNCHANGED <<ctor, keys, closed, errors, plain, net, netSt, reader, writer, batcher, obs>>

\* -------------------------------------------------------- ReadFrame, Read
\* bytes.Buffer.Read(b) on the buffer buf with len(b) = size: the count, the
\* error, the bytes, and what stays buffered.
BufferRead(buf, size) ==
  IF buf = <<>>
  THEN [n |-> 0, err |-> IF size = 0 THEN NoErr ELSE "EOF", data |-> <<>>, rest |-> <<>>]
  ELSE [n |-> Min(size, BLen(buf)), err |-> NoErr, data |-> BTake(buf, size),
        rest |-> BDrop(buf, size)]

CallReadFrame(t, c) ==
  /\ CanCall(t, c)
  /\ thr' = Calling(t, c, "ReadFrame", "RF_sel", <<>>, 0)
  /\ UNCHANGED <<ctor, keys, closed, errors, plain, net, netSt, reader, writer, batcher, obs>>

\* Read(b) with len(b) = size: served from c.plain when it holds bytes, else
\* through ReadFrame.
CallRead(t, c, size) ==
  /\ CanCall(t, c)
  /\ IF BLen(plain[c]) > 0
     THEN LET r == BufferRead(plain[c], size)
          IN /\ thr' = ReturnNow(t, Result("Read", c, thr[t].k + 1, size, r.n, r.err, r.data))
             /\ plain' = [plain EXCEPT ![c] = r.rest]
             /\ obs' = [obs EXCEPT ![c].readOut = Cat(@, r.data)]
     ELSE /\ thr' = Calling(t, c, "Read", "RF_sel", <<>>, size)
          /\ UNCHANGED <<plain, obs>>
  /\ UNCHANGED <<ctor, keys, closed, errors, net, netSt, reader, writer, batcher>>

\* ReadFrame's select: case err := <-c.errors.  Read returns 0 and the error.
ReadFrameErr(t) ==
  /\ thr[t].pc = "RF_sel"
  /\ errors[thr[t].c] # <<>>
  /\ thr' = Returned(t, Head(errors[thr[t].c]), 0, <<>>)
  /\ errors' = Pop(thr[t].c)
  /\ UNCHANGED <<ctor, keys, closed, plain, net, netSt, reader, writer, batcher, obs>>

\* What the call in RF_sel does with the content msg it received: unseal it;
\* ReadFrame returns the plaintext, Read writes it to c.plain and reads from there.
Unsealed(t, msg) ==
  LET c == thr[t].c
      u == UnsealBytes(msg, keys[c].sharedSecret)
      r == BufferRead(Cat(plain[c], u.plain), thr[t].size)
      o == CountSeal(c)
  IN IF u.kind = "panic"
     THEN /\ thr' = Panic(t)
          /\ plain' = plain
          /\ obs' = o
     ELSE IF u.kind = "err"
     THEN /\ thr' = Returned(t, "auth", 0, <<>>)
          /\ plain' = plain
          /\ obs' = o
     ELSE IF thr[t].op = "ReadFrame"
     THEN /\ thr' = Returned(t, NoErr, BLen(u.plain), u.plain)
          /\ plain' = plain
          /\ obs' = [o EXCEPT ![c].rfGot = Append(@, u.plain)]
     ELSE /\ thr' = Returned(t, r.err, r.n, r.data)
          /\ plain' = [plain EXCEPT ![c] = r.rest]
          /\ obs' = [o EXCEPT ![c].readOut = Cat(@, r.data)]

\* select: case msg := <-c.inBox meets boxReader's c.inBox <- tmp.
ReadFrameRecv(t) ==
  /\ thr[t].pc = "RF_sel"
  /\ InBoxReady(thr[t].c)
  /\ reader' = ReaderDelivered(thr[t].c)
  /\ Unsealed(t, reader[thr[t].c].tmp)
  /\ UNCHANGED <<ctor, keys, closed, errors, net, netSt, writer, batcher>>

\* The receive from the closed inBox yields a nil msg at once.
ReadFrameClosed(t) ==
  /\ thr[t].pc = "RF_sel"
  /\ closed[thr[t].c].inBox
  /\ Unsealed(t, <<>>)
  /\ UNCHANGED <<ctor, keys, closed, errors, net, netSt, reader, writer, batcher>>

\* ------------------------------------------------------------------ Close
CallClose(t, c) ==
  /\ CanCall(t, c)
  /\ thr' = Calling(t, c, "Close", "CL_conn", <<>>, 0)
  /\ UNCHANGED <<ctor, keys, closed, errors, plain, net, netSt, reader, writer, batcher, obs>>

\* err := c.conn.Close(): a transport closed before reports an error, and
\* Close returns it without closing the channels.
CloseConn(t) ==
  /\ thr[t].pc = "CL_conn"
  /\ IF netSt[thr[t].c] = "closed"
     THEN /\ thr' = Returned(t, "closed", 0, <<>>)
          /\ netSt' = netSt
     ELSE /\ thr' = [thr EXCEPT ![t].pc = "CL_inBox"]
          /\ netSt' = [netSt EXCEPT ![thr[t].c] = "closed"]
  /\ UNCHANGED <<ctor, keys, closed, errors, plain, net, reader, writer, batcher, obs>>

\* close(c.inBox)
CloseInBox(t) ==
  /\ thr[t].pc = "CL_inBox"
  /\ closed' = [closed EXCEPT ![thr[t].c].inBox = TRUE]
  /\ thr' = [thr EXCEPT ![t].pc = "CL_outBox"]
  /\ UNCHANGED <<ctor, keys, errors, plain, net, netSt, reader, writer, batcher, obs>>

\* close(c.outBox)
CloseOutBox(t) ==
  /\ thr[t].pc = "CL_outBox"
  /\ closed' = [closed EXCEPT ![thr[t].c].outBox = TRUE]
  /\ thr' = [thr EXCEPT ![t].pc = "CL_outStream"]
  /\ UNCHANGED <<ctor, keys, errors, plain, net, netSt, reader, writer, batcher, obs>>

\* close(c.outStream), then select: case err := <-c.errors, default
CloseOutStream(t) ==
  /\ thr[t].pc = "CL_outStream"
  /\ closed' = [closed EXCEPT ![thr[t].c].outStream = TRUE]
  /\ IF errors[thr[t].c] # <<>>
     THEN /\ thr' = Returned(t, Head(errors[thr[t].c]), 0, <<>>)
          /\ errors' = Pop(thr[t].c)
     ELSE /\ thr' = Returned(t, NoErr, 0, <<>>)
          /\ errors' = errors
  /\ UNCHANGED <<ctor, keys, plain, net, netSt, reader, writer, batcher, obs>>

\* ------------------------------------------------------------ environment
\* The transport of c breaks: its reads and writes fail from now on.
NetFail(c) ==
  /\ netSt[c] = "open"
  /\ netSt' = [netSt EXCEPT ![c] = "failed"]
  /\ UNCHANGED <<ctor, keys, closed, errors, plain, net, reader, writer, batcher, thr, obs>>

\* ------------------------------------------------- the transport, altered
\* One bit of a sealed content in flight to c is flipped, in the nonce or in
\* the box.  An altered box holds altered plaintext; neither is any longer
\* what seal made.
AlteredPlain(b) == [i \in DOMAIN b |-> [b[i] EXCEPT !.k = "alt"]]
AlteredRun(r) ==
  IF r.k = "nonce" THEN [r EXCEPT !.k = "tnonce"]
  ELSE [r EXCEPT !.k = "tbox", !.plain = AlteredPlain(r.plain)]

TamperContent(c) ==
  /\ \E i \in DOMAIN net[c] :
       /\ net[c][i].k \in {"nonce", "box"}
       /\ net' = [net EXCEPT ![c][i] = AlteredRun(@)]
  /\ UNCHANGED <<ctor, keys, closed, errors, plain, netSt, reader, writer, batcher, thr, obs>>

\* The bits of a length field that may be flipped in flight.
FlipBits == {0, 5}
FlipBit(v, bit) == IF (v \div (2 ^ bit)) % 2 = 1 THEN v - 2 ^ bit ELSE v + 2 ^ bit

\* One bit of the length field of a frame in flight to c is flipped; the
\* field keeps a note of it, and no second bit of it is flipped.
TamperLen(c) ==
  /\ \E i \in DOMAIN net[c] : \E bit \in FlipBits :
       /\ net[c][i].k = "len"
       /\ RLen(net[c][i]) = LenFieldSize
       /\ net[c][i].plain = <<>>
       /\ net' = [net EXCEPT ![c][i].id = FlipBit(@, bit),
                             ![c][i].plain = <<Run("flip", bit, 0, 0, <<>>)>>]
  /\ UNCHANGED <<ctor, keys, closed, errors, plain, netSt, reader, writer, batcher, thr, obs>>

\* ------------------------------------------------------- specifications
\* Both connections constructed: the handshake is over, the tasks run.
Constructed(c) ==
  [pc |-> "done", publicKey |-> KeyOf(c), privateKey |-> KeyOf(c),
   peersPublicKey |-> KeyOf(Peer(c)), err |-> NoErr, got |-> KeyBytes(KeyOf(Peer(c))),
   gotAny |-> TRUE]
ConstructedKeys(c) ==
  [publicKey |-> KeyOf(c), privateKey |-> KeyOf(c), peersPublicKey |-> KeyOf(Peer(c)),
   sharedSecret |-> Precompute(KeyOf(Peer(c)), KeyOf(c))]

Init ==
  /\ ctor = [c \in Conns |-> Constructed(c)]
  /\ keys = [c \in Conns |-> ConstructedKeys(c)]
  /\ closed = [c \in Conns |-> AllOpen]
  /\ errors = [c \in Conns |-> <<>>]
  /\ plain = [c \in Conns |-> <<>>]
  /\ net = [c \in Conns |-> <<>>]
  /\ netSt = [c \in Conns |-> "open"]
  /\ reader = [c \in Conns |-> ReaderInit]
  /\ writer = [c \in Conns |-> WriterInit]
  /\ batcher = [c \in Conns |-> BatcherInit]
  /\ thr = [t \in Threads |-> Idle(0, NoRes)]
  /\ obs = [c \in Conns |-> [NoObs EXCEPT !.firstFrame = KeyBytes(KeyOf(c)),
                                          !.maxWire = KeySize + LenFieldSize,
                                          !.netOps = TRUE]]

\* An unrecovered panic in a foreground call ends the process: nothing
\* runs after it.
Alive(A) == ~Panicked /\ A

\* What one transport read may return: everything readable, or a single
\* byte when the read starts a frame (the read then ends inside the length field).
ReadCuts(c) ==
  {Readable(c)} \cup (IF reader[c].buff = <<>> /\ Readable(c) > 1 THEN {1} ELSE {})

WriteLens == {0, 1, MaxContent, MaxContent + 1}
ReadSizes == {1, MaxContent}

\* Streaming: w1 and w2 write on A, r1 reads on B; nothing fails, nobody closes.
Next ==
  \/ \E c \in Conns : Alive(ReaderLoop(c))
  \/ \E c \in Conns : \E n \in ReadCuts(c) : Alive(ReaderRead(c, n))
  \/ \E c \in Conns : Alive(WriterWrite(c))
  \/ \E c \in Conns : Alive(BatcherFlush(c, TRUE))
  \/ \E c \in Conns : Alive(BatcherReport(c, TRUE))
  \/ \E c \in Conns : Alive(BatcherWake(c, TRUE))
  \/ \E c \in Conns : \E t \in WThreads : Alive(BatcherAccept(c, t, TRUE))
  \/ \E t \in WThreads : \E len \in WriteLens : Alive(CallWrite(t, "A", len))
  \/ \E size \in ReadSizes : Alive(CallRead("r1", "B", size))
  \/ Alive(ReadFrameRecv("r1"))

Spec == Init /\ [][Next]_vars

\* Frames: w1 and w2 call WriteFrame on A, r1 calls ReadFrame on B; nothing
\* fails, nobody closes.
FrameLens == {0, 1, MaxContent, MaxContent + 1}

FrameNext ==
  \/ \E c \in Conns : Alive(ReaderLoop(c))
  \/ \E c \in Conns : \E n \in ReadCuts(c) : Alive(ReaderRead(c, n))
  \/ \E c \in Conns : Alive(WriterWrite(c))
  \/ \E t \in WThreads : \E len \in FrameLens : Alive(CallWriteFrame(t, "A", len, TRUE))
  \/ \E t \in WThreads : Alive(WriteFrameSend(t))
  \/ Alive(CallReadFrame("r1", "B"))
  \/ Alive(ReadFrameRecv("r1"))

SpecFrame == Init /\ [][FrameNext]_vars

\* The handshake: NewBoxConn is called on A with any arguments, the peer is
\* the environment.  What the peer has sent is in flight: a first frame, well
\* formed or not, and a payload frame sealed for A with B's key.  The
\* transport may break.  On the connection NewBoxConn returns, w1 calls Write
\* or WriteFrame and r1 calls ReadFrame.
FirstFrames ==
  {KeyBytes(KeyOf("B")), KeyBytes(StrangerKey), BTake(KeyBytes(KeyOf("B")), KeySize - 1),
   Cat(KeyBytes(KeyOf("B")), Payload(0, 1)), <<>>}
PeerHello == SealBytes(Payload(0, 1), Precompute(KeyOf("A"), KeyOf("B")))

NotCalled ==
  [pc |-> "none", publicKey |-> NoKey, privateKey |-> NoKey, peersPublicKey |-> NoKey,
   err |-> NoErr, got |-> <<>>, gotAny |-> FALSE]

HSInit ==
  /\ \E pub \in {NoKey, KeyOf("A")}, priv \in {NoKey, KeyOf("A")},
        expected \in {NoKey, KeyOf("B"), StrangerKey} :
       ctor = [c \in Conns |->
                 IF c = "A"
                 THEN [NotCalled EXCEPT !.pc = "start", !.publicKey = pub,
                                        !.privateKey = priv, !.peersPublicKey = expected]
                 ELSE NotCalled]
  /\ keys = [c \in Conns |-> NoKeys]
  /\ closed = [c \in Conns |-> AllOpen]
  /\ errors = [c \in Conns |-> <<>>]
  /\ plain = [c \in Conns |-> <<>>]
  /\ \E first \in FirstFrames :
       net = [c \in Conns |->
                IF c = "A" THEN Cat(EncodeFrame(first), EncodeFrame(PeerHello)) ELSE <<>>]
  /\ netSt = [c \in Conns |-> "open"]
  /\ reader = [c \in Conns |-> ReaderOff]
  /\ writer = [c \in Conns |-> WriterOff]
  /\ batcher = [c \in Conns |-> BatcherOff]
  /\ thr = [t \in Threads |-> Idle(0, NoRes)]
  /\ obs = [c \in Conns |-> NoObs]

HSNext ==
  \/ Alive(CtorStart("A"))
  \/ Alive(CtorKeys("A"))
  \/ Alive(CtorSendKey("A"))
  \/ Alive(CtorRecvErr("A"))
  \/ Alive(CtorRecvMsg("A"))
  \/ Alive(NetFail("A"))
  \/ Alive(ReaderLoop("A"))
  \/ \E n \in ReadCuts("A") : Alive(ReaderRead("A", n))
  \/ Alive(ReaderReadErr("A"))
  \/ Alive(WriterWrite("A"))
  \/ Alive(WriterWriteErr("A"))
  \/ Alive(BatcherAccept("A", "w1", TRUE))
  \/ Alive(BatcherFlush("A", TRUE))
  \/ Alive(BatcherReport("A", TRUE))
  \/ Alive(BatcherWake("A", TRUE))
  \/ Alive(CallWrite("w1", "A", 1))
  \/ Alive(WriteGetErr("w1"))
  \/ Alive(CallWriteFrame("w1", "A", 1, TRUE))
  \/ Alive(WriteFrameSend("w1"))
  \/ Alive(WriteFrameErr("w1"))
  \/ Alive(CallReadFrame("r1", "A"))
  \/ Alive(ReadFrameRecv("r1"))
  \/ Alive(ReadFrameErr("r1"))

SpecHS == HSInit /\ [][HSNext]_vars

\* Failures and Close on connection A.  w1 calls Write on A; w2 calls
\* WriteFrame on A or on B (what B's boxWriter sends is what A's boxReader has to
\* deliver); r1 calls ReadFrame and Read on A; k1 calls Close on A.  The
\* transport of A may break and rand.Read may fail.  Of B's tasks only the
\* boxWriter is scheduled: the behaviours are those in which B's boxReader has
\* not run yet.
FailLens == {0, 1}

TaskNext(c) ==
  \/ ReaderLoop(c)
  \/ \E n \in ReadCuts(c) : ReaderRead(c, n)
  \/ ReaderReadErr(c)
  \/ ReaderPanic(c)
  \/ WriterWrite(c)
  \/ WriterWriteErr(c)
  \/ WriterExit(c)
  \/ \E t \in WThreads : \E randOk \in BOOLEAN : BatcherAccept(c, t, randOk)
  \/ \E randOk \in BOOLEAN : BatcherFlush(c, randOk)
  \/ \E randOk \in BOOLEAN : BatcherReport(c, randOk)
  \/ \E randOk \in BOOLEAN : BatcherWake(c, randOk)
  \/ BatcherExit(c)
  \/ BatcherPanic(c)

FailNext ==
  \/ Alive(ReaderLoop("A"))
  \/ \E n \in ReadCuts("A") : Alive(ReaderRead("A", n))
  \/ Alive(ReaderReadErr("A"))
  \/ Alive(ReaderPanic("A"))
  \/ \E c \in Conns : Alive(WriterWrite(c))
  \/ Alive(WriterWriteErr("A"))
  \/ Alive(WriterExit("A"))
  \/ \E randOk \in BOOLEAN : Alive(BatcherAccept("A", "w1", randOk))
  \/ \E randOk \in BOOLEAN : Alive(BatcherFlush("A", randOk))
  \/ \E randOk \in BOOLEAN : Alive(BatcherReport("A", randOk))
  \/ \E randOk \in BOOLEAN : Alive(BatcherWake("A", randOk))
  \/ Alive(BatcherExit("A"))
  \/ Alive(BatcherPanic("A"))
  \/ \E len \in FailLens : Alive(CallWrite("w1", "A", len))
  \/ Alive(WritePanic("w1"))
  \/ Alive(WriteGetErr("w1"))
  \/ \E c \in Conns : \E randOk \in BOOLEAN : Alive(CallWriteFrame("w2", c, 1, randOk))
  \/ Alive(WriteFrameSend("w2"))
  \/ Alive(WriteFrameErr("w2"))
  \/ Alive(WriteFramePanic("w2"))
  \/ Alive(CallReadFrame("r1", "A"))
  \/ \E size \in ReadSizes : Alive(CallRead("r1", "A", size))
  \/ Alive(ReadFrameRecv("r1"))
  \/ Alive(ReadFrameErr("r1"))
  \/ Alive(ReadFrameClosed("r1"))
  \/ Alive(CallClose("k1", "A"))
  \/ Alive(CloseConn("k1"))
  \/ Alive(CloseInBox("k1"))
  \/ Alive(CloseOutBox("k1"))
  \/ Alive(CloseOutStream("k1"))
  \/ Alive(NetFail("A"))

SpecFail == Init /\ [][FailNext]_vars

\* An altered transport: w1 calls WriteFrame on A, r1 calls ReadFrame and Read
\* on B, and what is in flight to B may have a bit flipped, in a sealed
\* content or in a length field.
WireLens == {1, 2}

WireNext ==
  \/ \E c \in Conns : Alive(ReaderLoop(c))
  \/ \E c \in Conns : \E n \in ReadCuts(c) : Alive(ReaderRead(c, n))
  \/ \E c \in Conns : Alive(WriterWrite(c))
  \/ \E len \in WireLens : Alive(CallWriteFrame("w1", "A", len, TRUE))
  \/ Alive(WriteFrameSend("w1"))
  \/ Alive(CallReadFrame("r1", "B"))
  \/ Alive(CallRead("r1", "B", 1))
  \/ Alive(ReadFrameRecv("r1"))
  \/ Alive(TamperContent("B"))
  \/ Alive(TamperLen("B"))

SpecWire == Init /\ [][WireNext]_vars

\* Write and WriteFrame together: w1 calls Write and w2 calls WriteFrame on A,
\* r1 calls Read on B; nothing fails, nobody closes.
MixLens == {0, 1, MaxContent, MaxContent + 1}

MixNext ==
  \/ \E c \in Conns : Alive(ReaderLoop(c))
  \/ \E c \in Conns : \E n \in ReadCuts(c) : Alive(ReaderRead(c, n))
  \/ \E c \in Conns : Alive(WriterWrite(c))
  \/ \E c \in Conns : Alive(BatcherAccept(c, "w1", TRUE))
  \/ \E c \in Conns : Alive(BatcherFlush(c, TRUE))
  \/ \E c \in Conns : Alive(BatcherReport(c, TRUE))
  \/ \E c \in Conns : Alive(BatcherWake(c, TRUE))
  \/ \E len \in MixLens : Alive(CallWrite("w1", "A", len))
  \/ \E len \in MixLens : Alive(CallWriteFrame("w2", "A", len, TRUE))
  \/ Alive(WriteFrameSend("w2"))
  \/ \E size \in ReadSizes : Alive(CallRead("r1", "B", size))
  \/ Alive(ReadFrameRecv("r1"))

SpecMix == Init /\ [][MixNext]_vars

\* Segmentation: w1 calls WriteFrame on A, r1 calls ReadFrame on B, and the
\* transport hands boxReader the bytes in pieces: everything readable, or, while
\* the buffer holds less than a length field and one byte, a single byte (the
\* read ends inside the length field), the length field and one byte, or all
\* but the last byte in flight (the read ends inside a content, after any
\* number of whole frames).
SegLens == {0, 1, MaxContent}
SegCuts(c) ==
  {Readable(c)} \cup
  {n \in {1, LenFieldSize + 1, Readable(c) - 1} :
     n >= 1 /\ n < Readable(c) /\ BLen(reader[c].buff) <= LenFieldSize}

SegNext ==
  \/ \E c \in Conns : Alive(ReaderLoop(c))
  \/ \E c \in Conns : \E n \in SegCuts(c) : Alive(ReaderRead(c, n))
  \/ \E c \in Conns : Alive(WriterWrite(c))
  \/ \E len \in SegLens : Alive(CallWriteFrame("w1", "A", len, TRUE))
  \/ Alive(WriteFrameSend("w1"))
  \/ Alive(CallReadFrame("r1", "B"))
  \/ Alive(ReadFrameRecv("r1"))

SpecSeg == Init /\ [][SegNext]_vars

\* ----------------------------------------------------------------- properties
\* C1: in the plaintext stream of the frames streamWriter hands to boxWriter,
\* the bytes of one Write call form one contiguous run: between two bytes of
\* the same call there is no byte of another call.
C1_NoInterleaving ==
  \A c \in Conns :
    LET h == obs[c].handed
    IN \A i, j \in DOMAIN h :
         (i < j /\ h[i].id = h[j].id) => \A m \in i..j : h[m].id = h[i].id

\* Two Write calls race and the one being drained spans frames: part of w1's
\* payload has been handed over, the rest is still held, and w2 waits to be received.
C1_Witness ==
  /\ batcher["A"].req = "w1"
  /\ BLen(batcher["A"].msg) > 0
  /\ obs["A"].handed # <<>>
  /\ thr["w2"].pc = "W_send"
  /\ thr["w2"].size > 0

\* C3: what WriteFrame hands over on A, ReadFrame returns on B: the same
\* payloads, one per call, in the same order, each unchanged; and the
\* payloads of one caller are handed over in the order of its calls.
C3_FrameRoundTrip ==
  LET got == obs["B"].rfGot
      sent == obs["A"].wfSent
      r == thr["r1"].res
  IN /\ Len(got) <= Len(sent)
     /\ \A i \in DOMAIN got : got[i] = sent[i].plain
     /\ (thr["r1"].pc = "idle" /\ r.op = "ReadFrame") =>
          (r.err = NoErr /\ got # <<>> /\ r.data = got[Len(got)])
     /\ \A i, j \in DOMAIN sent :
          (i < j /\ sent[i].id \div 10 = sent[j].id \div 10) => sent[i].id < sent[j].id

\* One caller sent a frame of MaxContent bytes and then another frame, and
\* ReadFrame has returned both.
C3_Witness ==
  /\ Len(obs["B"].rfGot) = 2
  /\ obs["B"].rfGot[1] = Payload(CallId("w1", 1), MaxContent)
  /\ obs["B"].rfGot[2] = Payload(CallId("w1", 2), 1)

\* Whether the payload marked id occurs in the byte string s, sealed or not.
Mentions(s, id) ==
  \E i \in DOMAIN s :
    \/ s[i].id = id /\ s[i].k = "dat"
    \/ \E j \in DOMAIN s[i].plain : s[i].plain[j].id = id

\* C4: WriteFrame of MaxContent bytes (or fewer) succeeds; WriteFrame of more
\* returns the frame-too-large error, and nothing of its payload is handed to
\* boxWriter or written to the transport.
C4_WriteFrameBoundary ==
  \A t \in WThreads :
    LET r == thr[t].res
        id == CallId(t, r.k)
    IN (thr[t].pc = "idle" /\ r.op = "WriteFrame") =>
         /\ r.size <= MaxContent =>
              (r.err = NoErr /\ \E i \in DOMAIN obs[r.c].wfSent : obs[r.c].wfSent[i].id = id)
         /\ r.size > MaxContent =>
              /\ r.err = "tooLarge"
              /\ \A i \in DOMAIN obs[r.c].wfSent : obs[r.c].wfSent[i].id # id
              /\ ~Mentions(writer[r.c].left, id)
              /\ ~Mentions(net[Peer(r.c)], id)
              /\ ~Mentions(reader[Peer(r.c)].buff, id)

\* Both sides of the boundary: a WriteFrame of MaxContent bytes has returned
\* without error, a WriteFrame of MaxContent + 1 bytes with the error.
C4_Witness ==
  /\ thr["w1"].pc = "idle"
  /\ thr["w1"].res.op = "WriteFrame"
  /\ thr["w1"].res.size = MaxContent
  /\ thr["w1"].res.err = NoErr
  /\ thr["w2"].pc = "idle"
  /\ thr["w2"].res.op = "WriteFrame"
  /\ thr["w2"].res.size = MaxContent + 1
  /\ thr["w2"].res.err = "tooLarge"

\* C5: when NewBoxConn was given an expected peer key and the first frame it
\* receives is not exactly that key, it fails, and no connection exists on
\* which anything is ever sealed or unsealed; when it was given none, a first
\* frame of KeySize bytes is adopted as the peer's key and construction succeeds.
C5_Pinning ==
  \A c \in Conns :
    LET expected == ctor[c].peersPublicKey
        msg == ctor[c].got
    IN ctor[c].gotAny =>
         /\ (expected # NoKey /\ msg # KeyBytes(expected)) =>
              /\ ctor[c].pc = "failed"
              /\ ctor[c].err # NoErr
              /\ keys[c].sharedSecret = NoKey
              /\ obs[c].sealOps = 0
         /\ (expected = NoKey /\ BLen(msg) = KeySize) =>
              /\ ctor[c].pc = "done"
              /\ ctor[c].err = NoErr
              /\ keys[c].peersPublicKey = KeyFromBytes(msg)

\* NewBoxConn expected B's key and received a stranger's.
C5_Witness ==
  /\ ctor["A"].gotAny
  /\ ctor["A"].peersPublicKey = KeyOf("B")
  /\ ctor["A"].got = KeyBytes(StrangerKey)
  /\ ctor["A"].pc = "failed"

\* C6: seal and unseal never run while sharedSecret is unset, and the first
\* frame a connection writes to the transport is its own public key.
C6_SecretBeforeSeal ==
  \A c \in Conns :
    /\ ~obs[c].nilSecret
    /\ obs[c].maxWire > 0 => obs[c].firstFrame = KeyBytes(ctor[c].publicKey)

\* After the handshake the connection has sealed and unsealed, and written a
\* payload frame after its key.
C6_Witness ==
  /\ obs["A"].sealOps = 2
  /\ obs["A"].maxWire > KeySize + LenFieldSize
  /\ thr["r1"].res.op = "ReadFrame"
  /\ thr["r1"].res.err = NoErr

\* C7: NewBoxConn called without a local key returns the configuration error
\* and no transport read or write is issued, by it or by a task it started.
C7_ConfigErrorOffline ==
  \A c \in Conns : ctor[c].err = "config" => ~obs[c].netOps

\* C8: a Write that has received an error from c.errors while some of its
\* bytes are unconsumed returns it: it is not back in its select, waiting.
C8_WriteReturnsOnError ==
  \A t \in WThreads :
    ~(thr[t].pc = "W_wait" /\ thr[t].err # NoErr /\ thr[t].n < thr[t].size)

TasksDone(c) == reader[c].pc = "done" /\ writer[c].pc = "done" /\ batcher[c].pc = "done"

\* C9: after Close each of the three tasks terminates: once Close has
\* returned, a task that has not ended has a step to take.
C9_TasksStopAfterClose ==
  \A c \in Conns :
    (CloseReturned(c) /\ ~Panicked /\ ~ENABLED TaskNext(c)) => TasksDone(c)

\* C10: a call of Write, WriteFrame, ReadFrame or Read made after Close has
\* returned does not panic, and returns an error and no data.
C10_ErrorAfterClose ==
  \A t \in Threads :
    /\ thr[t].late => thr[t].pc # "panic"
    /\ (thr[t].pc = "idle" /\ thr[t].res.late) =>
         (thr[t].res.err # NoErr /\ thr[t].res.data = <<>>)

\* A Write call that still has bytes the Stream Batcher has not consumed.
Unserved(t) == thr[t].pc \in {"W_send", "W_wait"} /\ thr[t].n < thr[t].size

\* C2: the bytes the peer's Read calls have returned are a prefix of the bytes
\* written at every moment, and they end up equal to them: once nothing can
\* move any more and the peer is in a Read waiting for data, every Write has been
\* consumed and every consumed byte has been returned.
C2_StreamRoundTrip ==
  /\ IsPrefix(obs["B"].readOut, obs["A"].accepted)
  /\ (~ENABLED Next /\ thr["r1"].pc = "RF_sel") =>
       /\ obs["B"].readOut = obs["A"].accepted
       /\ \A t \in WThreads : ~Unserved(t)

\* Whether the byte string s holds bytes of an altered plaintext.
HasAltered(s) == \E i \in DOMAIN s : s[i].k = "alt"

\* The content r1 is about to receive from boxReader does not open under the
\* shared secret.
AuthFails ==
  /\ thr["r1"].pc = "RF_sel"
  /\ reader[thr["r1"].c].pc = "send"
  /\ UnsealBytes(reader[thr["r1"].c].tmp, keys[thr["r1"].c].sharedSecret).kind = "err"

\* C11: when the content boxReader delivers fails authenticated decryption,
\* ReadFrame returns the authentication error and no plaintext, Read returns
\* 0 bytes with that error and leaves c.plain as it was; altered plaintext is
\* never returned, by either, nor put into c.plain.
C11_TamperDetected ==
  /\ [](\A c \in Conns :
          /\ ~HasAltered(plain[c])
          /\ ~HasAltered(obs[c].readOut)
          /\ \A i \in DOMAIN obs[c].rfGot : ~HasAltered(obs[c].rfGot[i]))
  /\ [][(AuthFails /\ thr'["r1"].pc # "RF_sel") =>
          /\ thr'["r1"].pc = "idle"
          /\ thr'["r1"].res.err = "auth"
          /\ thr'["r1"].res.n = 0
          /\ thr'["r1"].res.data = <<>>
          /\ plain' = plain
          /\ obs'[thr["r1"].c].rfGot = obs[thr["r1"].c].rfGot
          /\ obs'[thr["r1"].c].readOut = obs[thr["r1"].c].readOut]_vars

\* A Read has returned the authentication error for a frame altered in
\* flight, after an earlier Read on the same connection returned data.
C11_Witness ==
  /\ thr["r1"].pc = "idle"
  /\ thr["r1"].res.op = "Read"
  /\ thr["r1"].res.err = "auth"
  /\ obs["B"].readOut # <<>>

\* C12 as stated: every frame written to the transport, length prefix and
\* content together, is at most 65535 bytes.
C12_FrameWithin65535 == \A c \in Conns : obs[c].maxWire <= MaxRawData

\* C12 as the code has it: the content of every frame written to the
\* transport (handshake, WriteFrame or streamWriter) is at most MaxRawData =
\* 65535 bytes, the most its length field can state, so that the frame with its
\* prefix is at most MaxRawData + LenFieldSize = 65537 bytes, the size of the
\* receive buffer.
C12_ContentWithin65535 ==
  \A c \in Conns :
    /\ obs[c].maxWire <= MaxRawData + LenFieldSize
    /\ obs[c].maxWire <= BuffCap
    /\ writer[c].pc = "write" =>
         /\ BLen(writer[c].left) <= MaxRawData + LenFieldSize
         /\ Uint16(writer[c].left) = BLen(writer[c].left) - LenFieldSize

\* A frame carrying MaxContent bytes of plaintext from streamWriter has been
\* written, after one from WriteFrame: 65537 bytes on the transport.
C12_Witness ==
  /\ obs["A"].maxWire = MaxRawData + LenFieldSize
  /\ obs["A"].wfSent # <<>>
  /\ BLen(obs["A"].handed) >= MaxContent

\* C13: the bytes of the requests streamWriter has received, in the order it
\* received them, are the bytes it has handed to boxWriter, followed by the
\* bytes it holds in its frame, followed by what is left of the request it is
\* draining: a byte of an earlier request is handed over before every byte
\* of a later one.
C13_OrderPreserved ==
  \A c \in Conns :
    obs[c].accepted = Cat(obs[c].handed, Cat(batcher[c].frame, batcher[c].msg))

\* Two requests went out in one frame, one after the other: the frame
\* written holds both payloads of one byte.
C13_Witness ==
  /\ Len(obs["A"].handed) = 2
  /\ BLen(obs["A"].handed) = 2
  /\ obs["A"].maxWire = LenFieldSize + NonceSize + Overhead + 2
  /\ net["B"] # <<>>

\* The frames boxWriter makes of the payloads sent[i], sent[i+1], ..., sealed
\* under secret, as one byte string.
RECURSIVE WireFrom(_, _, _)
WireFrom(sent, i, secret) ==
  IF i > Len(sent) THEN <<>>
  ELSE Cat(EncodeFrame(SealBytes(sent[i].plain, secret)), WireFrom(sent, i + 1, secret))

\* C14: however the transport cuts the byte stream, boxReader delivers the
\* contents of the frames written, each once and in order: the contents it
\* has delivered are those of the first frames, the content it is about to
\* deliver is that of the next, and what it has buffered, followed by what
\* is in flight and what boxWriter is about to write, is the rest of the frames,
\* byte for byte.  Its buffer never holds more than its capacity, and a full
\* buffer holds a whole frame.
C14_Reassembly ==
  LET sent == obs["A"].wfSent
      got == obs["B"].rfGot
      secret == keys["A"].sharedSecret
      cut == reader["B"].pc = "send"
      d == Len(got) + (IF cut THEN 1 ELSE 0)
  IN /\ d <= Len(sent)
     /\ \A i \in DOMAIN got : got[i] = sent[i].plain
     /\ cut => reader["B"].tmp = SealBytes(sent[d].plain, secret)
     /\ Cat(reader["B"].buff, Cat(net["B"], writer["A"].left)) = WireFrom(sent, d + 1, secret)
     /\ BLen(reader["B"].buff) <= BuffCap
     /\ BLen(reader["B"].buff) = BuffCap => FrameBuffered(reader["B"].buff)

\* A read ended inside a content after a whole frame: the first frame has
\* been delivered and the buffer holds the second but for its last byte.
C14_Witness ==
  /\ Len(obs["B"].rfGot) = 1
  /\ Len(obs["A"].wfSent) = 2
  /\ BLen(net["B"]) = 1
  /\ BLen(reader["B"].buff) = BLen(WireFrom(obs["A"].wfSent, 2, keys["A"].sharedSecret)) - 1
  /\ BLen(obs["A"].wfSent[2].plain) = MaxContent

\* C15: where streamWriter may hand its sealed payload to boxWriter, the
\* payload is the seal of the frame as it is now (frame[:frameSize]); a
\* sealed payload covers between 1 and MaxContent bytes of plaintext; and the
\* frame is emptied only by the step that hands its sealed payload over.
C15_SealMatchesFrame ==
  /\ [](\A c \in Conns :
          /\ MaySend(batcher[c]) =>
               batcher[c].encMsg = SealBytes(batcher[c].frame, keys[c].sharedSecret)
          /\ batcher[c].encMsg # <<>> =>
               LET covered == BLen(UnsealBytes(batcher[c].encMsg, keys[c].sharedSecret).plain)
               IN covered >= 1 /\ covered <= MaxContent)
  /\ [][\A c \in Conns :
          (batcher[c].frame # <<>> /\ batcher'[c].frame = <<>>) =>
            /\ MaySend(batcher[c])
            /\ writer'[c].left = EncodeFrame(batcher[c].encMsg)
            /\ obs'[c].handed = Cat(obs[c].handed, batcher[c].frame)]_vars

\* A payload was sealed, a second request was copied into the frame behind
\* the first, and the frame has been sealed again: the payload that may be
\* sent covers both.
C15_Witness ==
  /\ MaySend(batcher["A"])
  /\ Len(batcher["A"].frame) = 2
  /\ obs["A"].sealOps = 2

\* C16: the bytes streamWriter has reported consumed end up in a sealed
\* payload handed to boxWriter with no further Write needed: once nothing can
\* move any more, no byte is left in the frame.
C16_ConsumedFlushed ==
  ~ENABLED Next => \A c \in Conns : batcher[c].frame = <<>>

\* C17: every Write of a non-empty payload returns, with n = len(b) and a nil
\* error: a Write that has returned has done so with these, and once nothing
\* can move any more no Write of a non-empty payload is still waiting.
C17_WriteReturns ==
  \A t \in WThreads :
    /\ (thr[t].pc = "idle" /\ thr[t].res.op = "Write" /\ thr[t].res.size > 0) =>
         (thr[t].res.n = thr[t].res.size /\ thr[t].res.err = NoErr)
    /\ (~ENABLED MixNext /\ thr[t].op = "Write" /\ thr[t].size > 0) =>
         thr[t].pc \notin {"W_send", "W_wait"}

\* C19: a Write of zero bytes returns 0 and a nil error and does not leave
\* streamWriter blocked on its completion channel: whenever streamWriter is
\* at the send of a count, the Write that made the request is there to receive it.
C19_EmptyWriteHarmless ==
  /\ \A t \in WThreads :
       (thr[t].pc = "idle" /\ thr[t].res.op = "Write" /\ thr[t].res.size = 0) =>
         (thr[t].res.n = 0 /\ thr[t].res.err = NoErr)
  /\ \A c \in Conns :
       batcher[c].pc = "report" => Receiving(batcher[c].req, c, batcher[c].reqK)

\* The tasks of c that have ended.
DoneCount(c) ==
  Cardinality({r \in {reader[c], writer[c], batcher[c]} : r.pc = "done"})

\* C18: a task never blocks at a push to c.errors: the queue always has room
\* for one more error, for it never holds more errors than tasks have ended,
\* each of the three having pushed at most one, as its last step.
C18_ErrorsNeverFull ==
  \A c \in Conns :
    /\ CanPush(c)
    /\ Len(errors[c]) <= DoneCount(c)
    /\ Len(errors[c]) <= 3

\* All three tasks have pushed an error and none has been received.
C18_Witness ==
  /\ Len(errors["A"]) = 3
  /\ {errors["A"][i] : i \in 1..3} = {"read", "write", "nonce"}

\* C20: whatever content boxReader delivers, also one shorter than the
\* nonce, ReadFrame returns the plaintext or an error: the call never ends in
\* an out-of-range slice.
C20_UnsealInRange ==
  \A t \in Threads : thr[t].op \in {"ReadFrame", "Read"} => thr[t].pc # "panic"

====
